---- MODULE Spec2Model ----
(***************************************************************************)
(* A model of src/src/lib.rs: the Node binding of rust-minidump.           *)
(*                                                                         *)
(*   - runtime():              the process-wide once-cell holding the      *)
(*                             tokio runtime;                              *)
(*   - minidump_stackwalk(),                                               *)
(*     minidump_dump():        the two exported functions.  Each runs on   *)
(*                             the JavaScript main thread, reads its       *)
(*                             arguments, creates a promise and spawns a   *)
(*                             task on the runtime;                        *)
(*   - the spawned tasks:      run on the worker pool and hand a closure   *)
(*                             to the neon channel (settle_with);          *)
(*   - the channel's closures: run back on the main thread and settle the  *)
(*                             promise;                                    *)
(*   - print_minidump_dump():  the renderer, a pure function of the dump,  *)
(*                             the brief flag and the sink.                *)
(*                                                                         *)
(* Spec is the bridge (calls, tasks, settlements); RenderSpec applies the  *)
(* renderer to dumps drawn from a bounded set, with a sink that may fail.  *)
(***************************************************************************)
EXTENDS Integers, Sequences, FiniteSets, TLC

VARIABLES
    RUNTIME,      \* the once-cell of runtime(): 0 = empty, k > 0 = it holds instance k
    constructed,  \* how many times Runtime::new() has returned Ok
    main,         \* the JavaScript main thread: [pc, id] of the exported call it is in
    req,          \* per call: what the JavaScript caller saw and the locals of the call
    task,         \* per call: the spawned task (the async block and what it captured)
    channel,      \* the neon channel: closures sent by settle_with, not yet run
    promise,      \* per call: the promise / deferred pair made by cx.promise()
    rs            \* RenderSpec only: one application of print_minidump_dump

vars == <<RUNTIME, constructed, main, req, task, channel, promise, rs>>

bridgeVars == <<RUNTIME, constructed, main, req, task, channel, promise>>

(***************************************************************************)
(* Bounds of the model.                                                    *)
(***************************************************************************)
\* Calls of the exported functions in one run of the process.
MaxReq == 2
\* Streams of a dump that are not absent (RenderSpec).
MaxPresent == 2
\* The sink of RenderSpec fails at its k-th write, k in 1..MaxFault, or never.
MaxFault == 4

Ids == 1..MaxReq

Ops == {"stackwalk", "dump"}

(***************************************************************************)
(* JavaScript values, as far as the argument readers tell them apart.      *)
(***************************************************************************)
JsValue(t, s, n, b, es) == [type |-> t, str |-> s, num |-> n, bool |-> b, elems |-> es]
JsUndefined == JsValue("undefined", "", 0, FALSE, <<>>)
JsString(s) == JsValue("string", s, 0, FALSE, <<>>)
JsNumber(n) == JsValue("number", "", n, FALSE, <<>>)
JsBoolean(b) == JsValue("boolean", "", 0, b, <<>>)
JsArray(es) == JsValue("array", "", 0, FALSE, es)
JsObject == JsValue("object", "", 0, FALSE, <<>>)

(***************************************************************************)
(* Dumps.  A dump is a function from stream names to what get_stream /     *)
(* get_raw_stream finds there: nothing (absent), a readable stream (valid) *)
(* or a directory entry whose data cannot be read (corrupt).  A raw stream *)
(* that is valid carries its bytes.                                        *)
(***************************************************************************)
FoundationStreams ==
    {"MinidumpSystemInfo", "MinidumpMemoryList", "MinidumpMemory64List", "MinidumpMiscInfo"}

TypedStreams ==
    FoundationStreams \cup
    {"MinidumpThreadList", "MinidumpModuleList", "MinidumpUnloadedModuleList",
     "MinidumpMemoryInfoList", "MinidumpException", "MinidumpAssertion",
     "MinidumpBreakpadInfo", "MinidumpThreadNames", "MinidumpCrashpadInfo"}

\* Mutant: the macro call names LinuxEnviron before LinuxCmdLine.
RawStreamListEnvironFirst ==
    <<"LinuxEnviron", "LinuxCmdLine", "LinuxLsbRelease", "LinuxProcStatus",
      "LinuxCpuInfo", "LinuxMaps">>

\* streams!(...) of print_minidump_dump, in the order of the macro call.
RawStreamList ==
    <<"LinuxCmdLine", "LinuxEnviron", "LinuxLsbRelease", "LinuxProcStatus",
      "LinuxCpuInfo", "LinuxMaps">>

RawStreams == {RawStreamList[i] : i \in 1..Len(RawStreamList)}

Streams == TypedStreams \cup RawStreams

Absent == [st |-> "absent", data |-> <<>>]
Valid(bytes) == [st |-> "valid", data |-> bytes]
Corrupt == [st |-> "corrupt", data |-> <<>>]

EmptyDump == [s \in Streams |-> Absent]

\* Byte contents the raw streams of RenderSpec's dumps carry.
RawContents ==
    {<<>>, <<97>>, <<0, 0, 98>>, <<97, 0, 255, 0>>,
     <<86, 65, 82, 49, 61, 97, 0, 86, 65, 82, 50, 61, 98, 0>>}

RECURSIVE StreamSetsUpTo(_)
StreamSetsUpTo(k) ==
    IF k = 0 THEN {{}}
    ELSE LET P == StreamSetsUpTo(k - 1)
         IN  P \cup {p \cup {s} : p \in P, s \in Streams}

\* The dumps RenderSpec renders: at most MaxPresent streams are not absent.
Dumps ==
    UNION {
        {[s \in Streams |->
            IF s \notin S THEN Absent
            ELSE IF f[s] = "corrupt" THEN Corrupt
            ELSE IF s \in RawStreams THEN Valid(c) ELSE Valid(<<>>)] :
         f \in [S -> {"valid", "corrupt"}], c \in RawContents} :
        S \in StreamSetsUpTo(MaxPresent)}

\* Minidump::get_stream::<T>() and Minidump::get_raw_stream(), as the renderer
\* calls them: Ok, Err(Error::StreamNotFound) or another Err.
GetStream(d, name) ==
    CASE d[name].st = "valid" -> [ok |-> TRUE, err |-> "", data |-> d[name].data]
      [] d[name].st = "absent" -> [ok |-> FALSE, err |-> "StreamNotFound", data |-> <<>>]
      [] OTHER -> [ok |-> FALSE, err |-> "StreamReadFailure", data |-> <<>>]

\* Result::ok() and Option::as_ref() on a foundation stream: Some or None.
Loaded(d, name) == IF GetStream(d, name).ok THEN "Some" ELSE "None"

BoolText(b) == IF b THEN "true" ELSE "false"

(***************************************************************************)
(* The sink.  A sink state is [out, n, ok, log]: the text accepted so far  *)
(* (a sequence of characters and of opaque chunks of the minidump crate's  *)
(* printers), the number of print / write calls made, whether no call has  *)
(* failed, and the calls in the order they were made.  The sink fails at   *)
(* its fault-th call (0: never).  Once a call has failed, `?` has returned *)
(* from the renderer and nothing else happens.                             *)
(***************************************************************************)
\* Mutant: the buffer is shared by the calls and not cleared: it still holds
\* the report of a call that resolved before.
NewSinkKept ==
    LET before == {id \in Ids : promise[id].state = "resolved" /\ req[id].op = "dump"}
    IN  [out |-> IF before = {} THEN <<>> ELSE promise[CHOOSE id \in before : TRUE].text,
         n |-> 0, ok |-> TRUE, log |-> <<>>]

\* BufWriter::new(Vec::new()): a new, empty buffer for each render.
NewSink == [out |-> <<>>, n |-> 0, ok |-> TRUE, log |-> <<>>]

\* F applied to the value of x.  (An operator's argument is an expression that
\* is evaluated again at each use; this evaluates the sink state once.)
Once(x, F(_)) == CHOOSE r \in {F(v) : v \in {x}} : TRUE

Note(s, event) ==
    LET do(v) == IF v.ok THEN [v EXCEPT !.log = Append(@, event)] ELSE v
    IN  Once(s, do)

\* Mutant: the result of a write is dropped (no `?`), later writes go on.
WriteKeepsGoing(s, what, text, fault) ==
    LET do(v) ==
            IF v.n + 1 = fault
            THEN [v EXCEPT !.n = @ + 1, !.ok = FALSE, !.log = Append(@, "fail:" \o what)]
            ELSE [v EXCEPT !.n = @ + 1, !.out = @ \o text,
                           !.log = Append(@, "print:" \o what)]
    IN  Once(s, do)

\* One print / write / writeln call on the sink, followed by `?`.
Write(s, what, text, fault) ==
    LET do(v) ==
            IF ~v.ok THEN v
            ELSE IF v.n + 1 = fault
            THEN [v EXCEPT !.n = @ + 1, !.ok = FALSE, !.log = Append(@, "fail:" \o what)]
            ELSE [v EXCEPT !.n = @ + 1, !.out = @ \o text,
                           !.log = Append(@, "print:" \o what)]
    IN  Once(s, do)

\* What a printer of the minidump crate writes: an opaque chunk naming the
\* section and what it was given, closed by a newline.
SectionText(name, given) == <<name>> \o given \o <<"\n">>

\* Mutant: a stream that is there but cannot be read gets a placeholder, as the
\* crashpad stream does.
PrintIfReadOrPlaceholder(s, d, name, given, fault) ==
    LET r == GetStream(d, name)
        do(v) ==
            IF ~v.ok THEN v
            ELSE IF r.ok
            THEN Write(Note(v, "get:" \o name), name, SectionText(name, given), fault)
            ELSE IF r.err = "StreamNotFound" THEN Note(v, "get:" \o name)
            ELSE Write(Note(v, "get:" \o name), "placeholder",
                       <<name \o " cannot print invalid data">>, fault)
    IN  Once(s, do)

\* `if let Ok(x) = dump.get_stream::<T>() { x.print(output, ...)?; }`
PrintIfRead(s, d, name, given, fault) ==
    LET do(v) ==
            IF ~v.ok THEN v
            ELSE IF GetStream(d, name).ok
            THEN Write(Note(v, "get:" \o name), name, SectionText(name, given), fault)
            ELSE Note(v, "get:" \o name)
    IN  Once(s, do)

\* Mutant: the section of a foundation stream gets the stream again.
PrintIfLoadedReloads(s, opt, name, given, fault) ==
    IF opt = "Some"
    THEN Write(Note(s, "get:" \o name), name, SectionText(name, given), fault)
    ELSE Note(s, "get:" \o name)

\* Mutant: a foundation stream that did not load is an error of the render.
PrintIfLoadedOrFail(s, opt, name, given, fault) ==
    LET do(v) ==
            IF ~v.ok THEN v
            ELSE [v EXCEPT !.ok = FALSE, !.log = Append(@, "fail:" \o name)]
    IN  IF opt = "Some" THEN Write(s, name, SectionText(name, given), fault)
        ELSE Once(s, do)

\* `if let Some(x) = x { x.print(output, ...)?; }` on a foundation stream.
PrintIfLoaded(s, opt, name, given, fault) ==
    IF opt = "Some" THEN Write(s, name, SectionText(name, given), fault) ELSE s

CrashpadPlaceholder == "MinidumpCrashpadInfo cannot print invalid data"

\* The match on dump.get_stream::<MinidumpCrashpadInfo>().
PrintCrashpad(s, d, fault) ==
    LET r == GetStream(d, "MinidumpCrashpadInfo")
        do(v) ==
            IF ~v.ok THEN v
            ELSE CASE r.ok ->
                        Write(Note(v, "get:MinidumpCrashpadInfo"), "MinidumpCrashpadInfo",
                              SectionText("MinidumpCrashpadInfo", <<>>), fault)
                   [] r.err = "StreamNotFound" -> Note(v, "get:MinidumpCrashpadInfo")
                   [] OTHER ->
                        Write(Note(v, "get:MinidumpCrashpadInfo"), "placeholder",
                              <<CrashpadPlaceholder>>, fault)
    IN  Once(s, do)

(***************************************************************************)
(* print_raw_stream.  Bytes are numbers; the text is a sequence of         *)
(* characters.                                                             *)
(***************************************************************************)
\* Mutant: split_terminator, where a NUL ends a segment and what follows the
\* last NUL is a segment only if it is not empty.
RECURSIVE SplitNulTerminator(_)
SplitNulTerminator(bytes) ==
    IF bytes = <<>> THEN <<>>
    ELSE LET rest == SplitNulTerminator(Tail(bytes))
         IN  IF Head(bytes) = 0 THEN << <<>> >> \o rest
             ELSE IF rest = <<>> THEN << <<Head(bytes)>> >>
             ELSE << <<Head(bytes)>> \o Head(rest) >> \o Tail(rest)

\* contents.split(|&v| v == 0): the segments between NUL bytes, empty ones kept.
RECURSIVE SplitNul(_)
SplitNul(bytes) ==
    IF bytes = <<>> THEN << <<>> >>
    ELSE LET rest == SplitNul(Tail(bytes))
         IN  IF Head(bytes) = 0
             THEN << <<>> >> \o rest
             ELSE << <<Head(bytes)>> \o Head(rest) >> \o Tail(rest)

\* The character of an ASCII byte (those the model's contents use).
AsciiChar(b) ==
    CASE b = 49 -> "1" [] b = 50 -> "2" [] b = 61 -> "="
      [] b = 65 -> "A" [] b = 82 -> "R" [] b = 86 -> "V"
      [] b = 97 -> "a" [] b = 98 -> "b" [] OTHER -> "?"

\* String::from_utf8_lossy on a segment: a byte that is no UTF-8 (here: >= 128,
\* the model has no multi-byte sequences) becomes U+FFFD.
RECURSIVE FromUtf8Lossy(_)
FromUtf8Lossy(bytes) ==
    IF bytes = <<>> THEN <<>>
    ELSE <<IF Head(bytes) < 128 THEN AsciiChar(Head(bytes)) ELSE "U+FFFD">>
         \o FromUtf8Lossy(Tail(bytes))

\* [String]::join(sep).
RECURSIVE Join(_, _)
Join(segs, sep) ==
    IF segs = <<>> THEN <<>>
    ELSE IF Len(segs) = 1 THEN Head(segs)
    ELSE Head(segs) \o sep \o Join(Tail(segs), sep)

\* The separator "\\0\n": a backslash, a zero, a newline.
NulSeparator == <<"\\", "0", "\n">>

RawStreamBody(contents) ==
    LET segs == SplitNul(contents)
    IN  Join([i \in 1..Len(segs) |-> FromUtf8Lossy(segs[i])], NulSeparator)

print_raw_stream(s, name, contents, fault) ==
    LET s1 == Write(s, name, <<"Stream ", name, ":", "\n">>, fault)
    IN  Write(s1, name \o ".contents", RawStreamBody(contents) \o <<"\n", "\n">>, fault)

\* The body of the for loop over streams!(...), for the streams from index i on.
RECURSIVE PrintRawStreams(_, _, _, _)
PrintRawStreams(s, d, i, fault) ==
    LET name == RawStreamList[i]
        r == GetStream(d, name)
        do(v) ==
            IF i > Len(RawStreamList) \/ ~v.ok THEN v
            ELSE PrintRawStreams(
                     IF r.ok THEN print_raw_stream(Note(v, "get:" \o name), name, r.data, fault)
                     ELSE Note(v, "get:" \o name),
                     d, i + 1, fault)
    IN  Once(s, do)

(***************************************************************************)
(* print_minidump_dump(dump, output, brief): the sink state it ends in.    *)
(* Its result is Ok(()) iff .ok holds there.                               *)
(***************************************************************************)
print_minidump_dump(d, brief, fault) ==
    LET h == Write(NewSink, "Minidump", SectionText("MDRawHeader", <<>>), fault)
        \* Other streams depend on these, so load them upfront.
        l1 == Note(h, "get:MinidumpSystemInfo")
        l2 == Note(l1, "get:MinidumpMemoryList")
        l3 == Note(l2, "get:MinidumpMemory64List")
        l4 == Note(l3, "get:MinidumpMiscInfo")
        system_info == Loaded(d, "MinidumpSystemInfo")
        memory_list == Loaded(d, "MinidumpMemoryList")
        memory64_list == Loaded(d, "MinidumpMemory64List")
        misc_info == Loaded(d, "MinidumpMiscInfo")
        b == "brief=" \o BoolText(brief)
        t1 == PrintIfRead(l4, d, "MinidumpThreadList",
                          <<"memory_list=" \o memory_list, "system_info=" \o system_info,
                            "misc_info=" \o misc_info, b>>, fault)
        t2 == PrintIfRead(t1, d, "MinidumpModuleList", <<>>, fault)
        t3 == PrintIfRead(t2, d, "MinidumpUnloadedModuleList", <<>>, fault)
        t4 == PrintIfLoaded(t3, memory_list, "MinidumpMemoryList", <<b>>, fault)
        t5 == PrintIfLoaded(t4, memory64_list, "MinidumpMemory64List", <<b>>, fault)
        t6 == PrintIfRead(t5, d, "MinidumpMemoryInfoList", <<>>, fault)
        t7 == PrintIfRead(t6, d, "MinidumpException",
                          <<"system_info=" \o system_info, "misc_info=" \o misc_info>>, fault)
        t8 == PrintIfRead(t7, d, "MinidumpAssertion", <<>>, fault)
        t9 == PrintIfLoaded(t8, system_info, "MinidumpSystemInfo", <<>>, fault)
        t10 == PrintIfLoaded(t9, misc_info, "MinidumpMiscInfo", <<>>, fault)
        t11 == PrintIfRead(t10, d, "MinidumpBreakpadInfo", <<>>, fault)
        t12 == PrintIfRead(t11, d, "MinidumpThreadNames", <<>>, fault)
        t13 == PrintCrashpad(t12, d, fault)
    IN  PrintRawStreams(t13, d, 1, fault)

(***************************************************************************)
(* The environment of the bridge: the files the paths name, and the        *)
(* values a JavaScript caller may pass.                                    *)
(***************************************************************************)
\* A crash dump of a Linux process.
CrashDump ==
    [EmptyDump EXCEPT !["MinidumpSystemInfo"] = Valid(<<>>),
                      !["MinidumpThreadList"] = Valid(<<>>),
                      !["MinidumpException"] = Valid(<<>>),
                      !["LinuxCmdLine"] = Valid(<<97, 0, 98, 0>>)]

\* A dump whose crashpad stream cannot be read.
CrashpadDump ==
    [EmptyDump EXCEPT !["MinidumpSystemInfo"] = Valid(<<>>),
                      !["MinidumpCrashpadInfo"] = Corrupt,
                      !["LinuxEnviron"] = Valid(<<86, 61, 97, 0>>)]

Paths == {"missing.dmp", "crash.dmp", "crashpad.dmp"}

\* Minidump::read_path(path): Ok(dump) or Err(error).  An opened dump is named by
\* its file; DumpOf gives its streams.
read_path(path) ==
    CASE path = "crash.dmp" -> [ok |-> TRUE, err |-> "", dump |-> path]
      [] path = "crashpad.dmp" -> [ok |-> TRUE, err |-> "", dump |-> path]
      [] OTHER -> [ok |-> FALSE, err |-> "Error::FileNotFound", dump |-> ""]

DumpOf(file) == IF file = "crash.dmp" THEN CrashDump ELSE CrashpadDump

\* Error::name() and the Display of the errors of minidump and minidump_processor.
ErrorName(e) ==
    CASE e = "Error::FileNotFound" -> "FileNotFound"
      [] e = "ProcessError::MissingThreadList" -> "MissingThreadList"
      [] OTHER -> "UnknownError"

ErrorDisplay(e) ==
    CASE e = "Error::FileNotFound" -> "file not found"
      [] e = "ProcessError::MissingThreadList" -> "The thread list stream was not found"
      [] OTHER -> "unknown error"

\* What process_minidump may return: Ok(state) or Err(error).
ProcessResults == {"Ok", "ProcessError::MissingThreadList"}

TempDir == "/tmp"
Url == "https://symbols.example/"
SymDir == "/symbols"

PathArgs == {JsUndefined} \cup {JsString(p) : p \in Paths}
\* An options object: its properties, undefined where it has none.
EmptyObject ==
    [symbolUrls |-> JsUndefined, symbolPaths |-> JsUndefined, symbolsCache |-> JsUndefined,
     symbolsTemp |-> JsUndefined, timeout |-> JsUndefined, brief |-> JsUndefined]

\* The options objects callers pass: well-formed ones, and ones with one
\* property of the wrong type.
GoodObjects ==
    {EmptyObject,
     [EmptyObject EXCEPT !.symbolUrls = JsArray(<<>>), !.symbolPaths = JsArray(<<>>)],
     [EmptyObject EXCEPT !.symbolUrls = JsArray(<<JsString(Url)>>)],
     [EmptyObject EXCEPT !.symbolPaths = JsArray(<<JsString(SymDir)>>)],
     [EmptyObject EXCEPT !.symbolUrls = JsArray(<<JsString(Url)>>),
                         !.symbolPaths = JsArray(<<JsString(SymDir)>>),
                         !.symbolsCache = JsString("/cache"),
                         !.symbolsTemp = JsString("/scratch"),
                         !.timeout = JsNumber(5)],
     [EmptyObject EXCEPT !.brief = JsBoolean(TRUE)],
     [EmptyObject EXCEPT !.brief = JsBoolean(FALSE)]}

BadObjects ==
    {[EmptyObject EXCEPT !.symbolUrls = JsString(Url)],
     [EmptyObject EXCEPT !.symbolUrls = JsArray(<<JsNumber(1)>>)],
     [EmptyObject EXCEPT !.symbolPaths = JsString(SymDir)],
     [EmptyObject EXCEPT !.symbolPaths = JsArray(<<JsNumber(1)>>)],
     [EmptyObject EXCEPT !.symbolsCache = JsNumber(1)],
     [EmptyObject EXCEPT !.symbolsTemp = JsNumber(1)],
     [EmptyObject EXCEPT !.timeout = JsString("5")],
     [EmptyObject EXCEPT !.timeout = JsNumber(-1)],
     [EmptyObject EXCEPT !.brief = JsNumber(1)]}

\* The second argument: not passed, passed and no object, passed and an object.
OptsArgs ==
    {[passed |-> FALSE, isObject |-> FALSE, obj |-> EmptyObject],
     [passed |-> TRUE, isObject |-> FALSE, obj |-> EmptyObject]}
    \cup {[passed |-> TRUE, isObject |-> TRUE, obj |-> o] : o \in GoodObjects \cup BadObjects}

\* Object::get_opt::<V>(key): None for undefined, Some for a V, else it throws.
get_opt(v, t) ==
    CASE v.type = "undefined" -> [throw |-> FALSE, some |-> FALSE]
      [] v.type = t -> [throw |-> FALSE, some |-> TRUE]
      [] OTHER -> [throw |-> TRUE, some |-> FALSE]

\* The loop that downcasts every element of an array to a string.
AllStrings(es) == \A i \in 1..Len(es) : es[i].type = "string"
Strings(es) == [i \in 1..Len(es) |-> es[i].str]

\* The default of `timeout`, in seconds.
DefaultTimeout == 1000

\* Duration::from_secs_f64(secs), for whole seconds: it panics below zero.
from_secs_f64(secs) == [panic |-> secs < 0, secs |-> IF secs < 0 THEN 0 ELSE secs, nanos |-> 0]

\* PathBuf::join.
PathJoin(dir, name) == dir \o "/" \o name

(***************************************************************************)
(* The symbol provider the stackwalk task builds, and what the closures    *)
(* sent to the channel do when the main thread runs them.                  *)
(***************************************************************************)
NoDuration == [secs |-> 0, nanos |-> 0]

\* Symbolizer::new(http_symbol_supplier(paths, urls, cache, tmp, timeout))
HttpSource(paths, urls, cache, tmp, timeout) ==
    [kind |-> "http", paths |-> paths, urls |-> urls, cache |-> cache, tmp |-> tmp,
     timeout |-> timeout]

\* Symbolizer::new(simple_symbol_supplier(paths))
SimpleSource(paths) ==
    [kind |-> "simple", paths |-> paths, urls |-> <<>>, cache |-> "", tmp |-> "",
     timeout |-> NoDuration]

\* Mutant: the local paths are tested first.
build_provider_paths_first(urls, paths, cache, tmp, timeout) ==
    IF paths # <<>> THEN <<SimpleSource(paths)>>
    ELSE IF urls # <<>> THEN <<HttpSource(paths, urls, cache, tmp, timeout)>>
    ELSE <<>>

\* MultiSymbolProvider::new() and the if / else if that adds to it: the sources
\* of the provider, in the order they were added.
build_provider(urls, paths, cache, tmp, timeout) ==
    IF urls # <<>> THEN <<HttpSource(paths, urls, cache, tmp, timeout)>>
    ELSE IF paths # <<>> THEN <<SimpleSource(paths)>>
    ELSE <<>>

RECURSIVE ProviderText(_)
ProviderText(provider) ==
    IF provider = <<>> THEN <<>>
    ELSE LET p == Head(provider)
         IN  <<p.kind, "paths">> \o p.paths \o <<"urls">> \o p.urls
             \o <<p.cache, p.tmp, ToString(p.timeout.secs)>> \o ProviderText(Tail(provider))

\* ProcessState::print of the state the engine made of a dump and a provider: an
\* opaque text that names both.
StateText(dump, provider) == <<"ProcessState", dump>> \o ProviderText(provider) \o <<"\n">>

\* What a closure hands to the deferred: Ok(text) resolves, a throw rejects.
Resolve(text) == [kind |-> "resolved", text |-> text]
Reject(message) == [kind |-> "rejected", text |-> <<message>>]

IoErrorDisplay == "No space left on device"

\* Mutant: the read error is reported with the wording of a processing error.
ReadErrorClosureAsProcessing(err) ==
    Reject(ErrorName(err) \o " - Error processing dump: " \o ErrorDisplay(err))

\* The closure of both Err(err) arms of read_path.
ReadErrorClosure(err) ==
    Reject(ErrorName(err) \o " - Error reading dump: " \o ErrorDisplay(err))

\* Mutant: the engine's error is returned as the value of the closure.
StackwalkClosureResolvesError(res, dump, provider) ==
    IF res = "Ok" THEN Resolve(StateText(dump, provider))
    ELSE Resolve(<<ErrorName(res) \o " - Error processing dump: " \o ErrorDisplay(res)>>)

\* The closure of minidump_stackwalk's Ok(dump) arm, given the engine's result.
StackwalkClosure(res, dump, provider) ==
    IF res = "Ok" THEN Resolve(StateText(dump, provider))
    ELSE Reject(ErrorName(res) \o " - Error processing dump: " \o ErrorDisplay(res))

\* The closure of minidump_dump's Ok(dump) arm, with a sink that fails at its
\* fault-th write (0: never).  The buffer holds what was printed; it is text
\* already, and String::from_utf8 returns it.
DumpClosure(d, brief, fault) ==
    LET r == print_minidump_dump(d, brief, fault)
    IN  IF r.ok THEN Resolve(r.out)
        ELSE Reject("Error processing dump: " \o IoErrorDisplay)

\* BufWriter::new(Vec::new()): writes to it do not fail.
BufWriterFault == 0

NoClosure ==
    [k |-> "none", deferred |-> 0, err |-> "", res |-> "", dump |-> "", provider |-> <<>>,
     brief |-> FALSE]

RunClosure(c) ==
    CASE c.k = "ReadErr" -> ReadErrorClosure(c.err)
      [] c.k = "Processed" -> StackwalkClosure(c.res, c.dump, c.provider)
      [] OTHER -> DumpClosure(DumpOf(c.dump), c.brief, BufWriterFault)

(***************************************************************************)
(* The state of the bridge.                                                *)
(***************************************************************************)
NoLocals ==
    [path |-> "", urls |-> <<>>, paths |-> <<>>, cache |-> "", tmp |-> "",
     timeout |-> NoDuration, brief |-> FALSE]

\* A call of an exported function: ret is what the JavaScript caller got
\* ("running": not yet returned, "threw": an exception, "promise": the promise),
\* why names the step that threw, args are the values the call read, spawns
\* counts the tasks it spawned.
NoReq == [op |-> "none", ret |-> "none", why |-> "", args |-> NoLocals, spawns |-> 0]

\* A spawned async block: where it is, the runtime instance it runs on, what it
\* captured, the dump it opened ("": none), and (stackwalk) the provider it
\* built, how often it built one and called the engine, and what the engine
\* returned ("": nothing yet).
NoTask ==
    [pc |-> "none", rt |-> 0, deferred |-> 0, cap |-> NoLocals, dump |-> "",
     provider |-> <<>>, built |-> 0, engine |-> 0, res |-> ""]

\* A promise: made counts cx.promise() calls, settles the settlements of its
\* deferred, renders the runs of print_minidump_dump made to settle it.
NoPromise == [state |-> "none", made |-> 0, settles |-> 0, text |-> <<>>, renders |-> 0]

\* The main thread: the statement it is at, the call it is in, and the runtime
\* and options object that call holds.
Idle == [pc |-> "idle", id |-> 0, opts |-> EmptyObject, rt |-> 0]

\* Mutant: the promise is created first, before the runtime is acquired.
StepsPromiseBeforeRuntime(op) ==
    IF op = "stackwalk"
    THEN <<"promise", "runtime", "path", "opts", "symbolUrls", "symbolPaths", "symbolsCache",
           "symbolsTemp", "timeout", "spawn">>
    ELSE <<"promise", "runtime", "path", "opts", "brief", "spawn">>

\* Mutant: the promise is created before the options are read.
StepsPromiseBeforeOptions(op) ==
    IF op = "stackwalk"
    THEN <<"runtime", "path", "promise", "opts", "symbolUrls", "symbolPaths", "symbolsCache",
           "symbolsTemp", "timeout", "spawn">>
    ELSE <<"runtime", "path", "promise", "opts", "brief", "spawn">>

\* The statements of the two exported functions that can fail or that create
\* something, in source order.
Steps(op) ==
    IF op = "stackwalk"
    THEN <<"runtime", "path", "opts", "symbolUrls", "symbolPaths", "symbolsCache",
           "symbolsTemp", "timeout", "promise", "spawn">>
    ELSE <<"runtime", "path", "opts", "brief", "promise", "spawn">>

After(op, pc) ==
    LET st == Steps(op)
        i == CHOOSE k \in 1..Len(st) : st[k] = pc
    IN  st[i + 1]

Called == {i \in Ids : req[i].op # "none"}

Throw(why) ==
    /\ req' = [req EXCEPT ![main.id].ret = "threw", ![main.id].why = why,
                          ![main.id].args = NoLocals]
    /\ main' = Idle
    /\ UNCHANGED <<RUNTIME, constructed, task, channel, promise, rs>>

Proceed(args) ==
    /\ req' = [req EXCEPT ![main.id].args = args]
    /\ main' = [main EXCEPT !.pc = After(req[main.id].op, main.pc)]
    /\ UNCHANGED <<RUNTIME, constructed, task, channel, promise, rs>>

Locals == req[main.id].args

(***************************************************************************)
(* The exported functions, statement by statement, on the main thread.     *)
(***************************************************************************)
\* JavaScript calls minidumpStackwalk or minidumpDump.
Call(op) ==
    /\ main.pc = "idle"
    /\ Cardinality(Called) < MaxReq
    /\ LET id == Cardinality(Called) + 1
       IN  /\ req' = [req EXCEPT ![id] = [NoReq EXCEPT !.op = op, !.ret = "running"]]
           /\ main' = [Idle EXCEPT !.pc = Steps(op)[1], !.id = id]
    /\ UNCHANGED <<RUNTIME, constructed, task, channel, promise, rs>>

\* Mutant: a construction that fails closes the cell (-1), as a poisoned Once
\* does: every later call fails without constructing.
get_or_try_init_poisons(cell, built, newOk) ==
    IF cell = -1 THEN [cell |-> -1, built |-> built, rt |-> 0]
    ELSE IF cell # 0 THEN [cell |-> cell, built |-> built, rt |-> cell]
    ELSE IF newOk THEN [cell |-> built + 1, built |-> built + 1, rt |-> built + 1]
    ELSE [cell |-> -1, built |-> built, rt |-> 0]

\* Mutant: every call constructs a runtime, whatever the cell holds.
get_or_try_init_always(cell, built, newOk) ==
    IF newOk THEN [cell |-> built + 1, built |-> built + 1, rt |-> built + 1]
    ELSE [cell |-> cell, built |-> built, rt |-> 0]

\* RUNTIME.get_or_try_init(|| Runtime::new().or_else(throw)): the cell, the
\* count of constructed runtimes and the instance returned (0: it threw).
get_or_try_init(cell, built, newOk) ==
    IF cell # 0 THEN [cell |-> cell, built |-> built, rt |-> cell]
    ELSE IF newOk THEN [cell |-> built + 1, built |-> built + 1, rt |-> built + 1]
    ELSE [cell |-> 0, built |-> built, rt |-> 0]

\* let rt = runtime(&mut cx)?; let channel = cx.channel();
AcquireRuntime ==
    /\ main.pc = "runtime"
    /\ \E newOk \in (IF RUNTIME = 0 THEN BOOLEAN ELSE {TRUE}) :
        LET r == get_or_try_init(RUNTIME, constructed, newOk)
        IN  /\ RUNTIME' = r.cell
            /\ constructed' = r.built
            /\ IF r.rt = 0
               THEN /\ req' = [req EXCEPT ![main.id].ret = "threw",
                                          ![main.id].why = "runtime"]
                    /\ main' = Idle
               ELSE /\ main' = [main EXCEPT !.pc = After(req[main.id].op, main.pc),
                                            !.rt = r.rt]
                    /\ req' = req
    /\ UNCHANGED <<task, channel, promise, rs>>

\* let minidump_path: Handle<JsString> = cx.argument(0)?;
ReadPath ==
    /\ main.pc = "path"
    /\ \E v \in PathArgs :
        IF v.type # "string" THEN Throw("path")
        ELSE Proceed([Locals EXCEPT !.path = v.str])

\* cx.argument_opt(1), downcast_or_throw::<JsObject> or cx.empty_object()
ReadOpts ==
    /\ main.pc = "opts"
    /\ \E o \in OptsArgs :
        IF o.passed /\ ~o.isObject THEN Throw("opts")
        ELSE /\ req' = req
             /\ main' = [main EXCEPT !.pc = After(req[main.id].op, main.pc),
                                     !.opts = IF o.passed THEN o.obj ELSE EmptyObject]
             /\ UNCHANGED <<RUNTIME, constructed, task, channel, promise, rs>>

\* opts.get_opt("symbolUrls")?, to_vec, and the loop of downcasts
ReadSymbolUrls ==
    /\ main.pc = "symbolUrls"
    /\ LET v == main.opts.symbolUrls
           g == get_opt(v, "array")
        IN  IF g.throw \/ (g.some /\ ~AllStrings(v.elems)) THEN Throw("symbolUrls")
            ELSE Proceed([Locals EXCEPT !.urls = IF g.some THEN Strings(v.elems) ELSE <<>>])

\* opts.get_opt("symbolPaths")?, to_vec, and the loop of downcasts
ReadSymbolPaths ==
    /\ main.pc = "symbolPaths"
    /\ LET v == main.opts.symbolPaths
           g == get_opt(v, "array")
        IN  IF g.throw \/ (g.some /\ ~AllStrings(v.elems)) THEN Throw("symbolPaths")
            ELSE Proceed([Locals EXCEPT !.paths = IF g.some THEN Strings(v.elems) ELSE <<>>])

\* temp_dir, opts.get_opt("symbolsCache")?, unwrap_or_else(temp_dir.join(..))
ReadSymbolsCache ==
    /\ main.pc = "symbolsCache"
    /\ LET v == main.opts.symbolsCache
           g == get_opt(v, "string")
        IN  IF g.throw THEN Throw("symbolsCache")
            ELSE Proceed([Locals EXCEPT !.cache = IF g.some THEN v.str
                                                  ELSE PathJoin(TempDir, "rust-minidump-cache")])

\* opts.get_opt("symbolsTemp")?, unwrap_or(temp_dir)
ReadSymbolsTemp ==
    /\ main.pc = "symbolsTemp"
    /\ LET v == main.opts.symbolsTemp
           g == get_opt(v, "string")
        IN  IF g.throw THEN Throw("symbolsTemp")
            ELSE Proceed([Locals EXCEPT !.tmp = IF g.some THEN v.str ELSE TempDir])

\* opts.get_opt("timeout")?, Duration::from_secs_f64(timeout.unwrap_or(1000.0));
\* a panic of from_secs_f64 leaves the call as an exception too.
ReadTimeout ==
    /\ main.pc = "timeout"
    /\ LET v == main.opts.timeout
           g == get_opt(v, "number")
           dur == from_secs_f64(IF g.some THEN v.num ELSE DefaultTimeout)
        IN  IF g.throw \/ dur.panic THEN Throw("timeout")
            ELSE Proceed([Locals EXCEPT !.timeout = [secs |-> dur.secs, nanos |-> dur.nanos]])

\* opts.get_opt("brief")?, unwrap_or(false)
ReadBrief ==
    /\ main.pc = "brief"
    /\ LET v == main.opts.brief
           g == get_opt(v, "boolean")
        IN  IF g.throw THEN Throw("brief")
            ELSE Proceed([Locals EXCEPT !.brief = IF g.some THEN v.bool ELSE FALSE])

\* let (deferred, promise) = cx.promise();
CreatePromise ==
    /\ main.pc = "promise"
    /\ promise' = [promise EXCEPT ![main.id].state = "pending", ![main.id].made = @ + 1]
    /\ main' = [main EXCEPT !.pc = After(req[main.id].op, main.pc)]
    /\ UNCHANGED <<RUNTIME, constructed, req, task, channel, rs>>

\* Mutant: every async block settles one shared deferred, the first call's.
DeferredOfFirst(id) == 1

\* The deferred the async block of call id captures: the one made by that call.
DeferredOf(id) == id

\* rt.spawn(async move { ... }); Ok(promise)
Spawn ==
    /\ main.pc = "spawn"
    /\ task' = [task EXCEPT ![main.id] =
                   [NoTask EXCEPT !.pc = "spawned", !.rt = main.rt,
                                  !.deferred = DeferredOf(main.id), !.cap = Locals]]
    /\ req' = [req EXCEPT ![main.id].ret = "promise", ![main.id].spawns = @ + 1]
    /\ main' = Idle
    /\ UNCHANGED <<RUNTIME, constructed, channel, promise, rs>>

(***************************************************************************)
(* The spawned tasks, on the worker pool, and the channel's closures, on   *)
(* the main thread.                                                        *)
(***************************************************************************)
Closure(k, t) == [NoClosure EXCEPT !.k = k, !.deferred = t.deferred]

\* Mutant: the Err(err) arm of read_path drops the deferred without sending.
AfterReadDropsError(op, t) ==
    LET r == read_path(t.cap.path)
        done == [t EXCEPT !.pc = "done", !.cap = NoLocals]
    IN  IF ~r.ok
        THEN [task |-> done, send |-> NoClosure]
        ELSE IF op = "dump"
        THEN [task |-> [done EXCEPT !.dump = r.dump],
              send |-> [Closure("Dump", t) EXCEPT !.dump = r.dump, !.brief = t.cap.brief]]
        ELSE [task |-> [t EXCEPT !.pc = "processing", !.cap = NoLocals, !.dump = r.dump,
                                 !.provider = build_provider(t.cap.urls, t.cap.paths,
                                                             t.cap.cache, t.cap.tmp,
                                                             t.cap.timeout),
                                 !.built = @ + 1, !.engine = @ + 1],
              send |-> NoClosure]

\* The async block up to its first await or to its end: read_path, and then
\* either a settle_with (send: the closure it sends, NoClosure for none) or, for
\* a stackwalk of a dump that opened, the provider and the call of the engine.
AfterRead(op, t) ==
    LET r == read_path(t.cap.path)
        done == [t EXCEPT !.pc = "done", !.cap = NoLocals]
    IN  IF ~r.ok
        THEN [task |-> done, send |-> [Closure("ReadErr", t) EXCEPT !.err = r.err]]
        ELSE IF op = "dump"
        THEN [task |-> [done EXCEPT !.dump = r.dump],
              send |-> [Closure("Dump", t) EXCEPT !.dump = r.dump, !.brief = t.cap.brief]]
        ELSE [task |-> [t EXCEPT !.pc = "processing", !.cap = NoLocals, !.dump = r.dump,
                                 !.provider = build_provider(t.cap.urls, t.cap.paths,
                                                             t.cap.cache, t.cap.tmp,
                                                             t.cap.timeout),
                                 !.built = @ + 1, !.engine = @ + 1],
              send |-> NoClosure]

\* Mutant: the closure is sent twice.
settle_with_twice(ch, c) == Append(Append(ch, c), c)

\* deferred.settle_with(&channel, closure): the closure is sent, once.
settle_with(ch, c) == Append(ch, c)

TaskRead(id) ==
    /\ task[id].pc = "spawned"
    /\ task[id].rt # 0
    /\ LET a == AfterRead(req[id].op, task[id])
       IN  /\ task' = [task EXCEPT ![id] = a.task]
           /\ channel' = IF a.send.k = "none" THEN channel ELSE settle_with(channel, a.send)
    /\ UNCHANGED <<RUNTIME, constructed, main, req, promise, rs>>

\* process_minidump(&dump, &provider).await returns, and the task sends the
\* closure that holds the result.
TaskProcessDone(id) ==
    /\ task[id].pc = "processing"
    /\ \E res \in ProcessResults :
        /\ task' = [task EXCEPT ![id].pc = "done", ![id].res = res]
        /\ channel' = settle_with(channel,
                                  [Closure("Processed", task[id]) EXCEPT
                                      !.res = res, !.dump = task[id].dump,
                                      !.provider = task[id].provider])
    /\ UNCHANGED <<RUNTIME, constructed, main, req, promise, rs>>

\* A deferred settled with the outcome r of closure c: a promise keeps its first
\* settlement.
Settled(p, r, c) ==
    [p EXCEPT !.settles = @ + 1,
              !.state = IF p.state = "pending" THEN r.kind ELSE @,
              !.text = IF p.state = "pending" THEN r.text ELSE @,
              !.renders = IF c.k = "Dump" THEN @ + 1 ELSE @]

\* The event loop runs the next closure of the channel.
Deliver ==
    /\ main.pc = "idle"
    /\ channel # <<>>
    /\ LET c == Head(channel)
       IN  promise' = [promise EXCEPT ![c.deferred] = Settled(@, RunClosure(c), c)]
    /\ channel' = Tail(channel)
    /\ UNCHANGED <<RUNTIME, constructed, main, req, task, rs>>

(***************************************************************************)
(* RenderSpec: print_minidump_dump and the match of minidump_dump's        *)
(* closure on its result, applied to a dump, a brief flag and a sink.      *)
(***************************************************************************)
NoSettle == [kind |-> "none", text |-> <<>>]

NoRender ==
    [phase |-> "off", dump |-> EmptyDump, brief |-> FALSE, fault |-> 0, sink |-> NewSink,
     settle |-> NoSettle]

RenderApply ==
    /\ rs.phase = "input"
    /\ rs' = [rs EXCEPT !.phase = "done",
                        !.sink = print_minidump_dump(rs.dump, rs.brief, rs.fault),
                        !.settle = DumpClosure(rs.dump, rs.brief, rs.fault)]
    /\ UNCHANGED bridgeVars

(***************************************************************************)
(* The specifications.                                                     *)
(***************************************************************************)
BridgeInit ==
    /\ RUNTIME = 0
    /\ constructed = 0
    /\ main = Idle
    /\ req = [i \in Ids |-> NoReq]
    /\ task = [i \in Ids |-> NoTask]
    /\ channel = <<>>
    /\ promise = [i \in Ids |-> NoPromise]

Init == BridgeInit /\ rs = NoRender

MainStep ==
    \/ AcquireRuntime
    \/ ReadPath
    \/ ReadOpts
    \/ ReadSymbolUrls
    \/ ReadSymbolPaths
    \/ ReadSymbolsCache
    \/ ReadSymbolsTemp
    \/ ReadTimeout
    \/ ReadBrief
    \/ CreatePromise
    \/ Spawn

Next ==
    \/ \E op \in Ops : Call(op)
    \/ MainStep
    \/ \E id \in Ids : TaskRead(id)
    \/ \E id \in Ids : TaskProcessDone(id)
    \/ Deliver

Spec == Init /\ [][Next]_vars

\* A call that has begun runs to its return, the worker pool runs every spawned
\* task, the engine returns, and the event loop runs every closure sent to it.
Fairness ==
    /\ WF_vars(MainStep)
    /\ \A id \in Ids : WF_vars(TaskRead(id))
    /\ \A id \in Ids : WF_vars(TaskProcessDone(id))
    /\ WF_vars(Deliver)

FairSpec == Spec /\ Fairness

RenderInit ==
    /\ BridgeInit
    /\ \E d \in Dumps, b \in BOOLEAN, f \in 0..MaxFault :
        rs = [NoRender EXCEPT !.phase = "input", !.dump = d, !.brief = b, !.fault = f]

RenderNext == RenderApply

RenderSpec == RenderInit /\ [][RenderNext]_vars

(***************************************************************************)
(* The claims.                                                             *)
(***************************************************************************)
IsSettled(id) == promise[id].state \in {"resolved", "rejected"}

\* Whether the dump call id names opens.
Opens(id) == read_path(req[id].args.path).ok

\* The message of a read error / of an engine error.
ReadErrorMessage(e) == ErrorName(e) \o " - Error reading dump: " \o ErrorDisplay(e)
ProcessErrorMessage(e) == ErrorName(e) \o " - Error processing dump: " \o ErrorDisplay(e)

\* C1: the deferred of every call is settled at most once, whatever arm its task
\* took: it is never resolved twice, rejected twice, or resolved and rejected.
C1_SettledAtMostOnce ==
    \A id \in Ids :
        /\ promise[id].settles <= 1
        /\ promise[id].settles = 1 <=> IsSettled(id)

\* Both kinds of settlement happened, each once.
C1_Witness ==
    \E i, j \in Ids :
        /\ promise[i].state = "resolved" /\ promise[i].settles = 1
        /\ promise[j].state = "rejected" /\ promise[j].settles = 1

\* C2: under FairSpec, every call that returned a promise has that promise
\* settled eventually.
C2_EventuallySettled ==
    \A id \in Ids : (req[id].ret = "promise") ~> IsSettled(id)

\* A stackwalk that went through the engine returned a promise that is settled.
C2_Witness ==
    \E id \in Ids :
        /\ req[id].op = "stackwalk" /\ req[id].ret = "promise"
        /\ task[id].res # "" /\ IsSettled(id)

\* C3: a call in which the construction of the runtime failed threw: no promise
\* was made for it, no task spawned, nothing sent to the channel, and its failure
\* is no rejected promise.
C3_RuntimeFailureIsSynchronous ==
    \A id \in Ids :
        req[id].why = "runtime" =>
            /\ req[id].ret = "threw"
            /\ promise[id] = NoPromise
            /\ task[id] = NoTask /\ req[id].spawns = 0
            /\ \A k \in 1..Len(channel) : channel[k].deferred # id

\* The construction failed in a call, and the cell is still empty.
C3_Witness ==
    \E id \in Ids : req[id].why = "runtime" /\ req[id].ret = "threw" /\ RUNTIME = 0

\* C4: a call that threw made no promise and spawned no task; a call that
\* returned made one promise and spawned one task; and while a promise exists
\* whose task is not spawned yet, its call is at the spawn statement.
C4_FallibleStepsPrecedePromise ==
    \A id \in Ids :
        /\ promise[id].made <= 1 /\ req[id].spawns <= 1
        /\ req[id].ret = "threw" =>
               promise[id].made = 0 /\ req[id].spawns = 0 /\ task[id].pc = "none"
        /\ req[id].ret = "promise" => promise[id].made = 1 /\ req[id].spawns = 1
        /\ (promise[id].made = 1 /\ req[id].spawns = 0) =>
               main.id = id /\ main.pc = "spawn"

\* A stackwalk threw at its last fallible statement and a dump returned a promise.
C4_Witness ==
    \E i, j \in Ids :
        /\ req[i].op = "stackwalk" /\ req[i].ret = "threw" /\ req[i].why = "timeout"
        /\ req[j].op = "dump" /\ req[j].ret = "promise"

\* C5: at most one runtime is ever constructed; once one is, the cell holds it
\* from then on, and every call and every task got that instance.
C5_OneRuntime ==
    /\ constructed <= 1
    /\ RUNTIME = constructed
    /\ main.rt \in {0, RUNTIME}
    /\ \A id \in Ids : task[id].pc # "none" => task[id].rt = RUNTIME /\ RUNTIME = 1

\* Two tasks, one of each operation, run on the one instance.
C5_Witness ==
    /\ constructed = 1
    /\ \E i, j \in Ids :
        /\ req[i].op = "stackwalk" /\ req[j].op = "dump"
        /\ task[i].rt = 1 /\ task[j].rt = 1

\* The outcomes the path and options of call id allow: one, but for a stackwalk
\* whose engine has not returned yet.
OwnOutcomes(id) ==
    LET a == req[id].args
        r == read_path(a.path)
    IN  IF ~r.ok THEN {ReadErrorClosure(r.err)}
        ELSE IF req[id].op = "dump"
        THEN {DumpClosure(DumpOf(r.dump), a.brief, BufWriterFault)}
        ELSE {StackwalkClosure(res, r.dump,
                               build_provider(a.urls, a.paths, a.cache, a.tmp, a.timeout)) :
              res \in (IF task[id].res = "" THEN ProcessResults ELSE {task[id].res})}

\* C6: a promise is settled only with an outcome of its own call's path and
\* options, in every interleaving of the tasks and the closures.
C6_NonInterference ==
    /\ \A id \in Ids :
        IsSettled(id) =>
            [kind |-> promise[id].state, text |-> promise[id].text] \in OwnOutcomes(id)
    /\ \A k \in 1..Len(channel) :
        /\ req[channel[k].deferred].ret = "promise"
        /\ RunClosure(channel[k]) \in OwnOutcomes(channel[k].deferred)

\* Two calls of different operations are in flight, and the later one is
\* settled while the earlier one is still pending.
C6_Witness ==
    \E i, j \in Ids :
        /\ i < j /\ req[i].op # req[j].op
        /\ req[i].ret = "promise" /\ promise[i].state = "pending"
        /\ IsSettled(j)

\* C7: the provider a stackwalk task builds has one http source, given the
\* URLs, the local paths, the cache and temp directories and the timeout, if
\* the call named a URL; else one source of the local paths if it named one;
\* else no source.  Building it never fails: the engine is called once with it,
\* also when it is empty, and then the call succeeds if the engine does.
C7_ProviderPriority ==
    \A id \in Ids :
        (req[id].op = "stackwalk" /\ task[id].pc \in {"processing", "done"} /\ Opens(id)) =>
            LET a == req[id].args
                p == task[id].provider
            IN  /\ task[id].built = 1 /\ task[id].engine = 1
                /\ a.urls # <<>> =>
                       /\ Len(p) = 1 /\ p[1].kind = "http"
                       /\ p[1].urls = a.urls /\ p[1].paths = a.paths
                       /\ p[1].cache = a.cache /\ p[1].tmp = a.tmp
                       /\ p[1].timeout = a.timeout
                /\ (a.urls = <<>> /\ a.paths # <<>>) =>
                       Len(p) = 1 /\ p[1].kind = "simple" /\ p[1].paths = a.paths
                /\ (a.urls = <<>> /\ a.paths = <<>>) =>
                       /\ p = <<>>
                       /\ (IsSettled(id) /\ task[id].res = "Ok") => promise[id].state = "resolved"

\* A stackwalk with neither URLs nor paths went through the engine and resolved.
C7_Witness ==
    \E id \in Ids :
        /\ req[id].op = "stackwalk" /\ req[id].args.urls = <<>> /\ req[id].args.paths = <<>>
        /\ task[id].engine = 1 /\ task[id].provider = <<>>
        /\ promise[id].state = "resolved"

\* C8: when the dump does not open, no provider is built, neither the engine nor
\* the renderer runs, and the promise of either operation is rejected with
\* "<name> - Error reading dump: <message>", never resolved.
C8_ReadErrorRejects ==
    \A id \in Ids :
        (req[id].ret = "promise" /\ ~Opens(id)) =>
            /\ task[id].built = 0 /\ task[id].engine = 0 /\ task[id].provider = <<>>
            /\ promise[id].renders = 0
            /\ promise[id].state \in {"pending", "rejected"}
            /\ promise[id].state = "rejected" =>
                   promise[id].text =
                       <<ReadErrorMessage(read_path(req[id].args.path).err)>>
            /\ promise[id].state = "pending" => promise[id].text = <<>>

\* A stackwalk and a dump of a file that does not exist were both rejected.
C8_Witness ==
    \E i, j \in Ids :
        /\ req[i].op = "stackwalk" /\ req[j].op = "dump"
        /\ req[i].args.path = "missing.dmp" /\ req[j].args.path = "missing.dmp"
        /\ promise[i].state = "rejected" /\ promise[j].state = "rejected"

\* Whether the step after opening succeeded for call id: the engine (stackwalk)
\* or the renderer writing to the closure's buffer (dump).
StepSucceeded(id) ==
    IF req[id].op = "stackwalk" THEN task[id].res = "Ok"
    ELSE print_minidump_dump(DumpOf(req[id].args.path), req[id].args.brief,
                             BufWriterFault).ok

\* C9: a settled promise is resolved iff the dump opened and the step after
\* succeeded, and then its value is the whole report; otherwise it is rejected
\* with the composed message of the failure.  The closure of a dump call, run
\* with a sink that fails at its f-th write, resolves only with the whole
\* report and else rejects with "Error processing dump: <message>".
C9_ResolvedIffSuccess ==
    \A id \in Ids :
        IsSettled(id) =>
            LET a == req[id].args
                p == promise[id]
            IN  /\ p.state = "resolved" <=> (Opens(id) /\ StepSucceeded(id))
                /\ p.state = "resolved" =>
                       p.text =
                           IF req[id].op = "stackwalk"
                           THEN StateText(a.path,
                                          build_provider(a.urls, a.paths, a.cache, a.tmp,
                                                         a.timeout))
                           ELSE print_minidump_dump(DumpOf(a.path), a.brief,
                                                    BufWriterFault).out
                /\ p.state = "rejected" =>
                       p.text =
                           IF ~Opens(id) THEN <<ReadErrorMessage(read_path(a.path).err)>>
                           ELSE IF req[id].op = "stackwalk"
                           THEN <<ProcessErrorMessage(task[id].res)>>
                           ELSE <<"Error processing dump: " \o IoErrorDisplay>>
                /\ (req[id].op = "dump" /\ Opens(id)) =>
                       \A f \in 0..MaxFault :
                           LET r == print_minidump_dump(DumpOf(a.path), a.brief, f)
                               s == DumpClosure(DumpOf(a.path), a.brief, f)
                               whole == print_minidump_dump(DumpOf(a.path), a.brief,
                                                            BufWriterFault).out
                           IN  /\ s.kind = "resolved" <=> r.ok
                               /\ s.kind = "resolved" => s.text = whole
                               /\ s.kind = "rejected" =>
                                      /\ r.out # whole
                                      /\ s.text = <<"Error processing dump: "
                                                      \o IoErrorDisplay>>

\* A stackwalk was rejected with the engine's error and a dump was resolved.
C9_Witness ==
    \E i, j \in Ids :
        /\ req[i].op = "stackwalk" /\ promise[i].state = "rejected"
        /\ Opens(i) /\ task[i].res \notin {"", "Ok"}
        /\ req[j].op = "dump" /\ promise[j].state = "resolved"

\* The positions of a chunk in a text.
PositionsOf(chunk, text) == {i \in 1..Len(text) : text[i] = chunk}

\* Whether the chunk at position i is a line of its own.
OwnLine(text, i) ==
    /\ i = 1 \/ text[i - 1] = "\n"
    /\ i = Len(text) \/ text[i + 1] = "\n"

\* C10: with a sink that does not fail, the renderer returns Ok whatever the
\* crashpad stream is; the stream's section is printed if it is valid, nothing
\* if it is absent, and the placeholder, as a line of its own, if it cannot be
\* read; and every raw stream that is there is printed after it.
C10_CrashpadThreeWays ==
    (rs.phase = "done" /\ rs.fault = 0) =>
        LET st == rs.dump["MinidumpCrashpadInfo"].st
            out == rs.sink.out
            section == PositionsOf("MinidumpCrashpadInfo", out)
            placeholder == PositionsOf(CrashpadPlaceholder, out)
        IN  /\ rs.sink.ok /\ rs.settle.kind = "resolved"
            /\ st = "valid" => Cardinality(section) = 1 /\ placeholder = {}
            /\ st = "absent" => section = {} /\ placeholder = {}
            /\ st = "corrupt" =>
                   /\ section = {} /\ Cardinality(placeholder) = 1
                   /\ \A i \in placeholder : OwnLine(out, i)
            /\ \A k \in 1..Len(RawStreamList) :
                   rs.dump[RawStreamList[k]].st = "valid" =>
                       \E i \in 1..(Len(out) - 1) :
                           /\ out[i] = "Stream " /\ out[i + 1] = RawStreamList[k]
                           /\ \A j \in section \cup placeholder : j < i

(***************************************************************************)
(* The report as a whole: the order of its sections.                       *)
(***************************************************************************)
\* The order of the sections of a report: the header, the typed streams, the
\* raw streams.
SectionOrder ==
    <<"MDRawHeader", "MinidumpThreadList", "MinidumpModuleList",
      "MinidumpUnloadedModuleList", "MinidumpMemoryList", "MinidumpMemory64List",
      "MinidumpMemoryInfoList", "MinidumpException", "MinidumpAssertion",
      "MinidumpSystemInfo", "MinidumpMiscInfo", "MinidumpBreakpadInfo",
      "MinidumpThreadNames", "MinidumpCrashpadInfo", "LinuxCmdLine", "LinuxEnviron",
      "LinuxLsbRelease", "LinuxProcStatus", "LinuxCpuInfo", "LinuxMaps">>

\* The chunks of a report that begin a section (of a raw stream: name it).
SectionMarks == {SectionOrder[i] : i \in 1..Len(SectionOrder)} \cup {CrashpadPlaceholder}

\* The place of a section in the order; the placeholder stands where the
\* crashpad section stands.
RankOf(chunk) ==
    LET c == IF chunk = CrashpadPlaceholder THEN "MinidumpCrashpadInfo" ELSE chunk
    IN  CHOOSE i \in 1..Len(SectionOrder) : SectionOrder[i] = c

\* C11: in every report, whole or cut short by the sink, the header comes
\* first and the sections that are there stand in the fixed order: thread
\* list, module list, unloaded modules, memory list, memory64 list, memory
\* info, exception, assertion, system info, misc info, breakpad info, thread
\* names, crashpad, then the raw streams command line, environment, release,
\* process status, CPU info, memory map; none stands twice.
C11_SectionOrder ==
    rs.phase = "done" =>
        LET out == rs.sink.out
            marks == {i \in 1..Len(out) : out[i] \in SectionMarks}
        IN  /\ out # <<>> => out[1] = "MDRawHeader"
            /\ \A i, j \in marks : i < j => RankOf(out[i]) < RankOf(out[j])
            /\ \A i \in marks : out[i] \in RawStreams => (i > 1 /\ out[i - 1] = "Stream ")

\* A whole report with the command line and the environment in it.
C11_Witness ==
    /\ rs.phase = "done" /\ rs.fault = 0
    /\ PositionsOf("LinuxCmdLine", rs.sink.out) # {}
    /\ PositionsOf("LinuxEnviron", rs.sink.out) # {}

(***************************************************************************)
(* The block of a raw stream in a report.                                  *)
(***************************************************************************)
\* Whether a report has a block for the raw stream name.
HasBlock(out, name) ==
    \E i \in 1..(Len(out) - 1) : out[i] = "Stream " /\ out[i + 1] = name

\* The block of the raw stream name: from its header to the next block's
\* header, or to the end of the report.
BlockOf(out, name) ==
    LET i == CHOOSE k \in 1..(Len(out) - 1) : out[k] = "Stream " /\ out[k + 1] = name
        later == {j \in (i + 1)..Len(out) : out[j] = "Stream "}
        last == IF later = {} THEN Len(out)
                ELSE (CHOOSE j \in later : \A k \in later : j <= k) - 1
    IN  SubSeq(out, i, last)

\* A text without the newlines at its end.
RECURSIVE StripNewlines(_)
StripNewlines(text) ==
    IF text # <<>> /\ text[Len(text)] = "\n"
    THEN StripNewlines(SubSeq(text, 1, Len(text) - 1))
    ELSE text

\* Whether bytes are NUL-terminated entries, and then the text of the entries.
NulTerminated(bytes) == bytes # <<>> /\ bytes[Len(bytes)] = 0

Entries(bytes) ==
    LET segs == SplitNul(bytes)
    IN  [i \in 1..(Len(segs) - 1) |-> FromUtf8Lossy(segs[i])]

\* C12: the block of a raw stream made of n NUL-terminated entries is the
\* header line naming the stream and then the n entries, one escaped-NUL
\* marker and a newline between each two of them, and nothing but newlines
\* after the last: "VAR1=a\0VAR2=b\0" is VAR1=a, one marker, VAR2=b.
C12_RawStreamEntries ==
    (rs.phase = "done" /\ rs.fault = 0) =>
        \A name \in RawStreams :
            LET c == rs.dump[name].data
            IN  (rs.dump[name].st = "valid" /\ NulTerminated(c)) =>
                    /\ HasBlock(rs.sink.out, name)
                    /\ StripNewlines(BlockOf(rs.sink.out, name)) =
                           <<"Stream ", name, ":", "\n">> \o Join(Entries(c), NulSeparator)

(***************************************************************************)
(* The sink fails.                                                         *)
(***************************************************************************)
\* What a call on the sink may write: the header, a section, the placeholder,
\* the header line of a raw block, the contents of a raw block.
Writes ==
    {"Minidump", "placeholder"} \cup Streams \cup {name \o ".contents" : name \in RawStreams}

\* The number of calls of a log that wrote.
Printed(log) ==
    Cardinality({i \in 1..Len(log) : \E w \in Writes : log[i] = "print:" \o w})

\* C13: when a call on the sink fails, whichever it is, the renderer stops
\* there: the failing call is the last thing it did, the report holds what
\* the calls before it wrote and nothing of what the whole render writes
\* after, and the closure of the dump operation rejects with the error.  When
\* no call fails the report is the whole one and the closure resolves with it.
C13_SinkFailureAborts ==
    rs.phase = "done" =>
        LET s == rs.sink
            whole == print_minidump_dump(rs.dump, rs.brief, 0)
            k == Len(s.log)
        IN  /\ ~s.ok =>
                /\ rs.fault > 0 /\ s.n = rs.fault /\ k > 0
                /\ \E w \in Writes : s.log[k] = "fail:" \o w /\ whole.log[k] = "print:" \o w
                /\ SubSeq(s.log, 1, k - 1) = SubSeq(whole.log, 1, k - 1)
                /\ Printed(s.log) = rs.fault - 1
                /\ Len(s.out) < Len(whole.out)
                /\ s.out = SubSeq(whole.out, 1, Len(s.out))
                /\ rs.settle = Reject("Error processing dump: " \o IoErrorDisplay)
            /\ s.ok =>
                /\ rs.fault = 0 \/ rs.fault > whole.n
                /\ s.out = whole.out /\ s.log = whole.log
                /\ rs.settle = Resolve(whole.out)

\* The sink failed at the header line of a raw block, after it had accepted the
\* report's header.
C13_Witness ==
    /\ rs.phase = "done" /\ ~rs.sink.ok
    /\ \E name \in RawStreams :
        /\ rs.sink.log[Len(rs.sink.log)] = "fail:" \o name
        /\ Len(rs.sink.out) > 1

(***************************************************************************)
(* Streams that are not there.                                             *)
(***************************************************************************)
\* C14: with a sink that does not fail, the renderer returns Ok for every
\* dump, whichever streams it has, also with none of the four foundation
\* streams; the report begins with the header, has the section of every
\* stream that is readable, and nothing of a stream that is absent.
C14_AbsentStreamsSkipped ==
    (rs.phase = "done" /\ rs.fault = 0) =>
        LET out == rs.sink.out
        IN  /\ rs.sink.ok /\ rs.settle = Resolve(out)
            /\ out # <<>> /\ out[1] = "MDRawHeader"
            /\ \A name \in Streams :
                   /\ rs.dump[name].st = "absent" => PositionsOf(name, out) = {}
                   /\ rs.dump[name].st = "valid" => Cardinality(PositionsOf(name, out)) = 1
            /\ rs.dump["MinidumpCrashpadInfo"].st = "absent" =>
                   PositionsOf(CrashpadPlaceholder, out) = {}
            /\ (\A name \in Streams : rs.dump[name].st = "absent") =>
                   out = SectionText("MDRawHeader", <<>>)

\* A dump with no foundation stream and a thread list was rendered: the thread
\* list was printed without any of them.
C14_Witness ==
    /\ rs.phase = "done" /\ rs.fault = 0
    /\ \A name \in FoundationStreams : rs.dump[name].st = "absent"
    /\ \E i \in PositionsOf("MinidumpThreadList", rs.sink.out) :
        /\ rs.sink.out[i + 1] = "memory_list=None"
        /\ rs.sink.out[i + 2] = "system_info=None"
        /\ rs.sink.out[i + 3] = "misc_info=None"

(***************************************************************************)
(* Which thread renders.                                                   *)
(***************************************************************************)
\* C15: for a dump call the task opens the dump and runs the renderer, and the
\* main thread only submits and delivers: what the task sends to the channel
\* is the computed outcome, never a closure that has yet to render, and the
\* event loop runs no render (promise.renders counts the runs of
\* print_minidump_dump that Deliver, on the main thread, made).
C15_RenderRunsInTask ==
    \A id \in Ids :
        req[id].op = "dump" =>
            /\ promise[id].renders = 0
            /\ \A i \in 1..Len(channel) :
                   channel[i].deferred = id => channel[i].k # "Dump"

FoundationLoads ==
    <<"get:MinidumpSystemInfo", "get:MinidumpMemoryList", "get:MinidumpMemory64List",
      "get:MinidumpMiscInfo">>

\* What a section is told of a foundation stream of dump d.
Told(d, name) == IF d[name].st = "valid" THEN "Some" ELSE "None"

\* C17: once the header is written, the four foundation streams are loaded
\* before anything else is read or printed, and each is read that one time
\* only; a load that fails is kept as None and fails nothing; and what the
\* thread list and the exception are given of them is what the render prints
\* later: Some exactly for the streams whose own section is in the report.
C17_FoundationLoadsFirst ==
    rs.phase = "done" =>
        LET log == rs.sink.log
            out == rs.sink.out
            d == rs.dump
        IN  /\ (log # <<>> /\ log[1] = "print:Minidump") =>
                /\ Len(log) >= 5 /\ SubSeq(log, 2, 5) = FoundationLoads
                /\ \A k \in 1..4 :
                       Cardinality({i \in 1..Len(log) : log[i] = FoundationLoads[k]}) = 1
            /\ (log # <<>> /\ log[1] # "print:Minidump") => log = <<"fail:Minidump">>
            /\ rs.fault = 0 => rs.sink.ok
            /\ \A i \in PositionsOf("MinidumpThreadList", out) :
                   /\ out[i + 1] = "memory_list=" \o Told(d, "MinidumpMemoryList")
                   /\ out[i + 2] = "system_info=" \o Told(d, "MinidumpSystemInfo")
                   /\ out[i + 3] = "misc_info=" \o Told(d, "MinidumpMiscInfo")
            /\ \A i \in PositionsOf("MinidumpException", out) :
                   /\ out[i + 1] = "system_info=" \o Told(d, "MinidumpSystemInfo")
                   /\ out[i + 2] = "misc_info=" \o Told(d, "MinidumpMiscInfo")
            /\ rs.sink.ok =>
                   \A name \in FoundationStreams :
                       (Told(d, name) = "Some") <=> (PositionsOf(name, out) # {})

\* The thread list was printed with a memory list that loaded, and the memory
\* list's own section came later in the same report.
C17_Witness ==
    /\ rs.phase = "done" /\ rs.fault = 0
    /\ \E i \in PositionsOf("MinidumpThreadList", rs.sink.out) :
        /\ rs.sink.out[i + 1] = "memory_list=Some"
        /\ \E j \in PositionsOf("MinidumpMemoryList", rs.sink.out) : i < j

(***************************************************************************)
(* Streams that cannot be read.                                            *)
(***************************************************************************)
\* C18: a stream other than the crashpad stream that is there but cannot be
\* read prints nothing and fails nothing: the render does what it does for
\* the dump that has no such stream, call for call, and gives the same report.
C18_CorruptAsAbsent ==
    rs.phase = "done" =>
        \A name \in Streams \ {"MinidumpCrashpadInfo"} :
            rs.dump[name].st = "corrupt" =>
                /\ rs.sink = print_minidump_dump([rs.dump EXCEPT ![name] = Absent],
                                                 rs.brief, rs.fault)
                /\ PositionsOf(name, rs.sink.out) = {}
                /\ rs.fault = 0 => (rs.sink.ok /\ rs.settle = Resolve(rs.sink.out))

\* A dump with an unreadable thread list and a readable module list was
\* rendered, and the module list is in the report.
C18_Witness ==
    /\ rs.phase = "done" /\ rs.fault = 0
    /\ rs.dump["MinidumpThreadList"].st = "corrupt"
    /\ PositionsOf("MinidumpModuleList", rs.sink.out) # {}

(***************************************************************************)
(* The exact text of a raw block.                                          *)
(***************************************************************************)
\* The places of the NUL bytes of a content, and the k-th of them.
NulPositions(c) == {i \in 1..Len(c) : c[i] = 0}

KthNul(c, k) ==
    CHOOSE p \in NulPositions(c) : Cardinality({q \in NulPositions(c) : q <= p}) = k

\* The k-th of the segments a content has: the bytes after the (k-1)-th NUL
\* and before the k-th, or to the end if there is no k-th.
SegmentAt(c, k) ==
    LET first == IF k = 1 THEN 1 ELSE KthNul(c, k - 1) + 1
        last == IF k = Cardinality(NulPositions(c)) + 1 THEN Len(c) ELSE KthNul(c, k) - 1
    IN  SubSeq(c, first, last)

\* C19: the block of a raw stream N with content c is exactly the line
\* "Stream N:", then the segments of c, one more than c has NUL bytes, empty
\* ones kept (also the one after a NUL at the end, and the one segment of an
\* empty content), joined by a backslash, a zero and a newline, then a newline
\* and an empty line.
C19_RawBlockExact ==
    (rs.phase = "done" /\ rs.fault = 0) =>
        \A name \in RawStreams :
            rs.dump[name].st = "valid" =>
                LET c == rs.dump[name].data
                    n == Cardinality(NulPositions(c)) + 1
                    segments == [k \in 1..n |-> FromUtf8Lossy(SegmentAt(c, k))]
                IN  /\ HasBlock(rs.sink.out, name)
                    /\ BlockOf(rs.sink.out, name) =
                           <<"Stream ", name, ":", "\n">>
                           \o Join(segments, <<"\\", "0", "\n">>)
                           \o <<"\n", "\n">>

\* Two raw streams whose content ends with a NUL were rendered, one block
\* after the other.
C19_Witness ==
    /\ rs.phase = "done" /\ rs.fault = 0
    /\ rs.dump["LinuxCmdLine"] = Valid(<<97, 0, 255, 0>>)
    /\ rs.dump["LinuxMaps"] = Valid(<<97, 0, 255, 0>>)
    /\ HasBlock(rs.sink.out, "LinuxCmdLine") /\ HasBlock(rs.sink.out, "LinuxMaps")

(***************************************************************************)
(* A runtime that could not be constructed.                                *)
(***************************************************************************)
\* Whether call id threw because the runtime could not be constructed.
RuntimeFailed(id) == req[id].ret = "threw" /\ req[id].why = "runtime"

====
